---- MODULE Spec2Model ----
(***************************************************************************)
(* df0.py: dataflow analysis of a Python subset.  The analyser's objects   *)
(* (set objects, dicts, Namespace, Ref, Function, BBlock) are kept in      *)
(* tables and referred to by their index, which is their identity; the     *)
(* methods of df0.py are the operators of the same name, taking the tables *)
(* as a record and giving back the tables they leave.                      *)
(***************************************************************************)
EXTENDS Naturals, Sequences, FiniteSets, TLC

(* ---------------------------------------------------------------- bounds *)
\* The longest top-level program analysed (statements after the prelude).
MaxProg == 3

(* ------------------------------------------------------------ type kinds *)
\* Type.types: the four BasicType instances registered at import.
IntT == 1
StrT == 2
BoolT == 3
FloatT == 4
\* A Function instance is a kind too: the i-th Function created is NBasic + i.
NBasic == 4
FuncKind(i) == NBasic + i
IsFunction(k) == k > NBasic
FuncOf(k) == k - NBasic

None == 0

Range(q) == {q[i] : i \in 1..Len(q)}

(* ---------------------------------------------------------- set objects  *)
(* A Python set is a hash table: its iteration order (which repr shows) is  *)
(* the order of the occupied slots.  An object's hash is its address, so    *)
(* the home slot of a kind differs from build to build: `build` is the      *)
(* hash the running interpreter gives each kind.  The table has 8 slots     *)
(* and grows to 32 with its fifth entry; an entry whose slot is taken goes  *)
(* to the next free one and entries never move until the table grows.       *)
(* A set object is recorded as its entries in insertion order.              *)
MinSize == 8
BigSize == 32
ResizeAt == 5

RECURSIVE Probe(_, _)
Probe(tab, i) ==
    IF tab[i + 1] = None THEN i ELSE Probe(tab, (i + 1) % Len(tab))

TableInsert(tab, k, h) ==
    [tab EXCEPT ![Probe(tab, h % Len(tab)) + 1] = k]

RECURSIVE Scan(_, _)
Scan(tab, i) ==
    IF i > Len(tab) THEN <<>>
    ELSE IF tab[i] = None THEN Scan(tab, i + 1)
    ELSE <<tab[i]>> \o Scan(tab, i + 1)

\* hash(kind) in the running build: `hash` lists the hashes the build gives
\* the kinds, in the order the objects are created.
HashOf(hash, k) == hash[((k - 1) % Len(hash)) + 1]

RECURSIVE Fill(_, _, _)
Fill(tab, ks, hash) ==
    IF ks = <<>> THEN tab
    ELSE Fill(TableInsert(tab, Head(ks), HashOf(hash, Head(ks))), Tail(ks), hash)

EmptyTable(n) == [i \in 1..n |-> None]

\* The hash table holding the entries `ins`, inserted in that order.
RECURSIVE Table(_, _)
Table(ins, hash) ==
    IF ins = <<>> THEN EmptyTable(MinSize)
    ELSE LET t == Table(SubSeq(ins, 1, Len(ins) - 1), hash)
             u == TableInsert(t, ins[Len(ins)], HashOf(hash, ins[Len(ins)]))
         IN  IF Len(ins) = ResizeAt
             THEN Fill(EmptyTable(BigSize), Scan(u, 1), hash)
             ELSE u

\* for v in value: the entries in the table's order.
IterOrder(ins, hash) == Scan(Table(ins, hash), 1)

\* set.add
SetAdd(ins, k) == IF k \in Range(ins) THEN ins ELSE Append(ins, k)

\* set.update(other): other's entries are added in other's iteration order.
RECURSIVE SetAddAll(_, _)
SetAddAll(ins, ks) ==
    IF ks = <<>> THEN ins ELSE SetAddAll(SetAdd(ins, Head(ks)), Tail(ks))

\* An empty set takes over other's table as it is (set.copy does the same).
SetUpdate(ins, other, hash) ==
    IF ins = <<>> THEN other ELSE SetAddAll(ins, IterOrder(other, hash))

\* repr of a kind: a BasicType prints its type (line 110), a Function prints
\* the idtree of its definition (line 129), not the object.
ReprKind(funcs, k) == IF IsFunction(k) THEN NBasic + funcs[FuncOf(k)].tree ELSE k

\* repr of a set: the reprs of its entries in iteration order.
ReprSet(funcs, ins, hash) ==
    LET o == IterOrder(ins, hash) IN [i \in 1..Len(o) |-> ReprKind(funcs, o[i])]

(* ------------------------------------------------------------ the syntax *)
(* ast nodes are records tagged by `t`.  A FunctionDef or Lambda carries   *)
(* `id`, its idtree (kind, name and position: one per definition node),    *)
(* which is also its index in Defs.                                        *)
Name(id) == [t |-> "Name", id |-> id]
Constant(kind) == [t |-> "Constant", kind |-> kind]
BinOp(left, right) == [t |-> "BinOp", left |-> left, right |-> right]
UnaryOp(operand) == [t |-> "UnaryOp", operand |-> operand]
Call(func, args) == [t |-> "Call", func |-> func, args |-> args]
Lambda(id, args, body) == [t |-> "Lambda", id |-> id, args |-> args, body |-> body]
NoValue == [t |-> "None"]

FunctionDef(id, name, args, body) ==
    [t |-> "FunctionDef", id |-> id, name |-> name, args |-> args, body |-> body]
If(body, orelse) == [t |-> "If", body |-> body, orelse |-> orelse]
While(body, orelse) == [t |-> "While", body |-> body, orelse |-> orelse]
For(target, body, orelse) ==
    [t |-> "For", target |-> target, body |-> body, orelse |-> orelse]
Assign(targets, value) == [t |-> "Assign", targets |-> targets, value |-> value]
AugAssign(target, value) == [t |-> "AugAssign", target |-> target, value |-> value]
Global(names) == [t |-> "Global", names |-> names]
Expr(value) == [t |-> "Expr", value |-> value]
Return(value) == [t |-> "Return", value |-> value]
Pass == [t |-> "Pass"]
Break == [t |-> "Break"]
Continue == [t |-> "Continue"]

(* ------------------------------------------------- the programs analysed *)
(* Every program starts with the definitions of Prelude and goes on with    *)
(* up to MaxProg statements of Stmts.  Defs[id] is the definition node with  *)
(* idtree id.                                                                *)
DefIdf == FunctionDef(1, "idf", <<"x">>, <<Return(Name("x"))>>)
DefCp == FunctionDef(2, "cp", <<"x">>,
             <<Assign(<<"z">>, Name("a")),
               If(<<Assign(<<"z">>, Name("x"))>>, <<>>),
               Return(Name("z"))>>)
DefR == FunctionDef(3, "r", <<"x">>,
             <<If(<<Return(Name("x"))>>, <<Return(Constant(StrT))>>)>>)
DefP == FunctionDef(4, "p", <<"x">>, <<Pass>>)
DefRec == FunctionDef(5, "rec", <<"x">>, <<Return(Call(Name("rec"), <<Name("x")>>))>>)
LambdaH == Lambda(7, <<"y">>, Name("y"))
DefMk == FunctionDef(6, "mk", <<"x">>,
             <<Assign(<<"h">>, LambdaH),
               Return(Call(Name("h"), <<Constant(IntT)>>))>>)
DefS1 == FunctionDef(8, "s1", <<"a">>,
             <<Assign(<<"a">>, Constant(IntT)), Global(<<"a">>), Return(NoValue)>>)
DefS2 == FunctionDef(9, "s2", <<"a">>,
             <<Global(<<"a">>), Assign(<<"a">>, Constant(IntT))>>)
DefS3 == FunctionDef(10, "s3", <<"a", "b">>,
             <<AugAssign("b", Name("a")), Break, Continue>>)
DefInner == FunctionDef(12, "inner", <<"a", "b">>,
             <<For("b", <<Global(<<"a">>)>>, <<>>)>>)
DefS4 == FunctionDef(11, "s4", <<"b">>,
             <<While(<<Assign(<<"b">>, Constant(IntT))>>, <<Global(<<"b">>)>>),
               DefInner>>)

Defs == <<DefIdf, DefCp, DefR, DefP, DefRec, DefMk, LambdaH,
          DefS1, DefS2, DefS3, DefS4, DefInner>>

Prelude == <<DefIdf, DefCp, DefR, DefP, DefRec, DefMk, DefS1, DefS2, DefS3, DefS4>>

CallOn(f, arg) == Call(Name(f), <<arg>>)

Stmts == <<
    Assign(<<"a">>, Constant(IntT)),
    Assign(<<"a", "b">>, Constant(StrT)),
    Assign(<<"b">>, Name("a")),
    If(<<Assign(<<"a">>, Constant(BoolT))>>, <<Assign(<<"a">>, Constant(IntT))>>),
    If(<<Assign(<<"b">>, Constant(IntT))>>, <<Assign(<<"b">>, Constant(BoolT))>>),
    While(<<Assign(<<"b">>, Constant(StrT))>>, <<>>),
    For("i", <<Assign(<<"b">>, UnaryOp(Name("a")))>>,
             <<AugAssign("a", Constant(FloatT))>>),
    AugAssign("a", Constant(StrT)),
    Assign(<<"b">>, BinOp(CallOn("idf", Name("a")), CallOn("idf", Name("b")))),
    Assign(<<"b">>, CallOn("cp", Constant(IntT))),
    Assign(<<"b">>, CallOn("cp", Constant(StrT))),
    Assign(<<"b">>, CallOn("r", Name("a"))),
    Expr(CallOn("p", Name("a"))),
    Assign(<<"b">>, CallOn("rec", Name("a"))),
    Assign(<<"b">>, BinOp(CallOn("mk", Constant(IntT)), CallOn("mk", Constant(StrT))))
  >>

\* The statement a program holds under index i.
Tree(i) == IF i <= Len(Prelude) THEN Prelude[i] ELSE Stmts[i - Len(Prelude)]

\* The builds the analyser is run on: the hashes of the kinds, in the order
\* the objects are created.  In the first, as in the CPython this was run
\* with, int and bool share a home slot, and so do str and float; in the
\* second no two kinds of a program do.
Builds == { <<1, 5, 1, 5, 2, 6, 3, 7, 0, 4>>,
            <<4, 3, 2, 1, 0, 5, 6, 7, 12, 13, 14, 15, 8, 9, 10, 11>> }

(* -------------------------------------------------------------- Namespace *)
(* s.spaces[i] is a Namespace, s.reftab[r] a Ref, s.funcs[f] a Function,    *)
(* s.functions the table Type.functions (idtree -> Function).              *)

\* Namespace(name, parent)
NewSpace(s, name, parent) ==
    [s EXCEPT !.spaces = Append(@, [name |-> name, parent |-> parent,
                                    spaces |-> <<>>, refs |-> <<>>])]

\* Namespace.add: gives [s, v], v the Ref.
Add(s, sp, name) ==
    IF name \in DOMAIN s.spaces[sp].refs
    THEN [s |-> s, v |-> s.spaces[sp].refs[name]]
    ELSE LET r == Len(s.reftab) + 1
         IN  [s |-> [s EXCEPT !.reftab = Append(@, [space |-> sp, name |-> name]),
                              !.spaces[sp].refs = (name :> r) @@ @],
              v |-> r]

\* Namespace.root
RECURSIVE Root(_, _)
Root(s, sp) == IF s.spaces[sp].parent = None THEN sp ELSE Root(s, s.spaces[sp].parent)

\* Namespace.lookup: the Ref, or None for KeyError.
RECURSIVE Lookup(_, _, _)
Lookup(s, sp, name) ==
    IF sp = None THEN None
    ELSE IF name \in DOMAIN s.spaces[sp].refs THEN s.spaces[sp].refs[name]
    ELSE Lookup(s, s.spaces[sp].parent, name)

\* Function(space, tree) and Type.register(tree, func)
NewFunction(s, sp, tree) ==
    LET f == Len(s.funcs) + 1
    IN  [s EXCEPT !.funcs = Append(@, [space |-> sp, tree |-> tree.id, bbs |-> <<>>]),
                  !.functions = (tree.id :> f) @@ @]

RECURSIVE AddAll(_, _, _)
AddAll(s, sp, names) ==
    IF names = <<>> THEN s ELSE AddAll(Add(s, sp, Head(names)).s, sp, Tail(names))

\* the Global case of build1: self.refs[name] = root.add(name)
\* A build in which `global` leaves a Ref the scope already has (a parameter,
\* an earlier assignment) in place.
RECURSIVE BuildGlobalKeep(_, _, _)
BuildGlobalKeep(s, sp, names) ==
    IF names = <<>> THEN s
    ELSE LET a == Add(s, Root(s, sp), Head(names))
         IN  BuildGlobalKeep(
                 IF Head(names) \in DOMAIN s.spaces[sp].refs THEN a.s
                 ELSE [a.s EXCEPT !.spaces[sp].refs = (Head(names) :> a.v) @@ @],
                 sp, Tail(names))

RECURSIVE BuildGlobal(_, _, _)
BuildGlobal(s, sp, names) ==
    IF names = <<>> THEN s
    ELSE LET a == Add(s, Root(s, sp), Head(names))
         IN  BuildGlobal([a.s EXCEPT !.spaces[sp].refs = (Head(names) :> a.v) @@ @],
                         sp, Tail(names))

RECURSIVE Build(_, _, _)
RECURSIVE Build1(_, _, _)
\* Namespace.build
Build(s, sp, body) ==
    IF body = <<>> \/ s.err # "" THEN s
    ELSE Build(Build1(s, sp, Head(body)), sp, Tail(body))

\* Namespace.build1
Build1(s, sp, tree) ==
    CASE tree.t = "FunctionDef" ->
           LET space == Len(s.spaces) + 1
               s1 == NewSpace(s, Append(s.spaces[sp].name, tree.name), sp)
               s2 == [s1 EXCEPT !.spaces[sp].spaces = (tree.name :> space) @@ @]
               s3 == AddAll(s2, space, tree.args)
               s4 == Build(s3, space, tree.body)
               s5 == Add(s4, sp, tree.name).s
           IN  IF s4.err # "" THEN s4 ELSE NewFunction(s5, space, tree)
      [] tree.t \in {"If", "While"} ->
           Build(Build(s, sp, tree.body), sp, tree.orelse)
      [] tree.t = "For" ->
           Build(Build(Add(s, sp, tree.target).s, sp, tree.body), sp, tree.orelse)
      [] tree.t = "Assign" -> AddAll(s, sp, tree.targets)
      [] tree.t = "AugAssign" -> Add(s, sp, tree.target).s
      [] tree.t = "Global" -> BuildGlobal(s, sp, tree.names)
      [] tree.t \in {"Expr", "Return", "Break", "Continue", "Pass"} -> s
      [] OTHER -> [s EXCEPT !.err = "SyntaxError"]

(* ----------------------------------------------------------------- Type  *)
\* Type.uniop
Uniop(self) == self

\* Type.binop
Binop(self, value) == value

RECURSIVE OptypeInner(_, _, _)
OptypeInner(v, v1, o2) ==
    IF o2 = <<>> THEN v
    ELSE OptypeInner(SetAdd(v, Binop(v1, Head(o2))), v1, Tail(o2))

RECURSIVE OptypeOuter(_, _, _)
OptypeOuter(v, o1, o2) ==
    IF o1 = <<>> THEN v
    ELSE OptypeOuter(OptypeInner(v, Head(o1), o2), Tail(o1), o2)

\* optype(value1, op, value2)
Optype(value1, value2, hash) ==
    OptypeOuter(<<>>, IterOrder(value1, hash), IterOrder(value2, hash))

\* { v.uniop(op) for v in value }
RECURSIVE UniopAll(_, _)
UniopAll(v, o) ==
    IF o = <<>> THEN v ELSE UniopAll(SetAdd(v, Uniop(Head(o))), Tail(o))

(* ------------------------------------------------------ dicts and objects *)
\* A dict (BBlock.values) is its items <<ref, set object>> in insertion order.
Has(values, ref) == \E i \in 1..Len(values) : values[i][1] = ref
Get(values, ref) == values[CHOOSE i \in 1..Len(values) : values[i][1] = ref][2]
Put(values, ref, obj) ==
    IF Has(values, ref)
    THEN [i \in 1..Len(values) |->
              IF values[i][1] = ref THEN <<ref, obj>> ELSE values[i]]
    ELSE Append(values, <<ref, obj>>)

\* A new set object holding `ins`: gives [s, v], v the object.
Alloc(s, ins) == [s |-> [s EXCEPT !.heap = Append(@, ins)], v |-> Len(s.heap) + 1]

\* BBlock(space, envs): envs lists the blocks whose `values` dicts it holds.
NewBlock(s, space, envs) ==
    [s EXCEPT !.blocks = Append(@, [space |-> space, envs |-> envs,
                                    values |-> <<>>, retval |-> None])]

Raise(s, e) == [s |-> [s EXCEPT !.err = e], v |-> None]

\* The kinds of a set object, and a dict by value.
Kinds(s, obj) == Range(s.heap[obj])
ByValue(s, values) == [i \in 1..Len(values) |-> <<values[i][1], Kinds(s, values[i][2])>>]

(* ---------------------------------------------------------------- BBlock *)
\* A merge that stores each incoming value over what the block has, instead
\* of adding its members.
RECURSIVE MergeIntoReplace(_, _, _)
MergeIntoReplace(s, bb, items) ==
    IF items = <<>> THEN s
    ELSE LET ref == Head(items)[1]
             value == Head(items)[2]
             mine == s.blocks[bb].values
         IN  IF Has(mine, ref)
             THEN MergeIntoReplace([s EXCEPT !.heap[Get(mine, ref)] = s.heap[value]],
                                   bb, Tail(items))
             ELSE LET a == Alloc(s, s.heap[value])
                  IN  MergeIntoReplace(
                          [a.s EXCEPT !.blocks[bb].values = Put(@, ref, a.v)],
                          bb, Tail(items))

RECURSIVE MergeInto(_, _, _)
MergeInto(s, bb, items) ==
    IF items = <<>> THEN s
    ELSE LET ref == Head(items)[1]
             value == Head(items)[2]
             mine == s.blocks[bb].values
         IN  IF Has(mine, ref)
             THEN MergeInto([s EXCEPT !.heap[Get(mine, ref)] =
                                 SetUpdate(@, s.heap[value], s.hash)],
                            bb, Tail(items))
             ELSE LET a == Alloc(s, s.heap[value])
                  IN  MergeInto([a.s EXCEPT !.blocks[bb].values = Put(@, ref, a.v)],
                                bb, Tail(items))

\* BBlock.merge; each join is noted in s.joins with the three dicts by value.
Merge(s, bb, values1, values2) ==
    LET s1 == MergeInto(MergeInto(s, bb, values1), bb, values2)
    IN  [s1 EXCEPT !.joins = Append(@, [bb |-> bb,
                                        pre |-> ByValue(s, s.blocks[bb].values),
                                        e1 |-> ByValue(s, values1),
                                        e2 |-> ByValue(s, values2),
                                        post |-> ByValue(s1, s1.blocks[bb].values)])]

\* for env in self.envs: if ref in env: return env[ref]
RECURSIVE EnvFind(_, _, _)
EnvFind(s, envs, ref) ==
    IF envs = <<>> THEN None
    ELSE IF Has(s.blocks[Head(envs)].values, ref)
         THEN Get(s.blocks[Head(envs)].values, ref)
         ELSE EnvFind(s, Tail(envs), ref)

\* repr(args)
Key(s, args) == [i \in 1..Len(args) |-> ReprSet(s.funcs, s.heap[args[i]], s.hash)]

\* key in self.bbs / self.bbs[key]
Cached(bbs, key) == \E i \in 1..Len(bbs) : bbs[i].key = key
CacheGet(bbs, key) == bbs[CHOOSE i \in 1..Len(bbs) : bbs[i].key = key].bb

(* The methods below call one another; where a method goes on after a call *)
(* it made, the rest of it is an operator of its own that takes the call's  *)
(* outcome: X = ...call...; rest  is  Rest(call).  An outcome with err set   *)
(* is an exception on its way up: every rest passes it on.                  *)
RECURSIVE Eval(_, _, _)
RECURSIVE EvalArgs(_, _, _, _)
RECURSIVE CallEach(_, _, _, _, _, _)
RECURSIVE Apply(_, _, _, _)
RECURSIVE Perform(_, _, _)
RECURSIVE Perform1(_, _, _)

\* self.values[ref] = value for each target, in order
RECURSIVE AssignAll(_, _, _, _)
AssignAll(s, bb, targets, value) ==
    IF targets = <<>> THEN s
    ELSE IF Lookup(s, s.blocks[bb].space, Head(targets)) = None
    THEN [s EXCEPT !.err = "KeyError"]
    ELSE AssignAll([s EXCEPT !.blocks[bb].values =
                        Put(@, Lookup(s, s.blocks[bb].space, Head(targets)), value)],
                   bb, Tail(targets), value)

\* bb.values[ref] = value.copy() for (arg, value) in zip(params, args)
RECURSIVE Bind(_, _, _, _)
Bind(s, bb, params, args) ==
    IF params = <<>> \/ args = <<>> THEN s
    ELSE IF Lookup(s, s.blocks[bb].space, Head(params)) = None
    THEN [s EXCEPT !.err = "KeyError"]
    ELSE Bind([s EXCEPT !.heap = Append(@, s.heap[Head(args)]),
                        !.blocks[bb].values =
                            Put(@, Lookup(s, s.blocks[bb].space, Head(params)),
                                Len(s.heap) + 1)],
              bb, Tail(params), Tail(args))

\* [ self.eval(arg1) for arg1 in tree.args ]: gives [s, v], v the set objects.
ArgsRest(e, bb, args, done) ==
    IF e.s.err # "" THEN e ELSE EvalArgs(e.s, bb, Tail(args), Append(done, e.v))

EvalArgs(s, bb, args, done) ==
    IF args = <<>> THEN [s |-> s, v |-> done]
    ELSE ArgsRest(Eval(s, bb, Head(args)), bb, args, done)

\* Function.apply, the end: return bb.retval
ApplyReturn(s4, bb) ==
    IF s4.err # "" THEN [s |-> s4, v |-> None]
    ELSE [s |-> [s4 EXCEPT !.completed = @ \cup {bb}], v |-> s4.blocks[bb].retval]

\* bb.retval = bb.eval(self.tree.body)
LambdaRetval(e, bb) ==
    IF e.s.err # "" THEN e.s ELSE [e.s EXCEPT !.blocks[bb].retval = e.v]

\* Function.apply, the branch "Not cached": s3 has the new block bb, entered
\* in self.bbs and holding the arguments.
ApplyBody(s3, bb, tree) ==
    IF s3.err # "" THEN ApplyReturn(s3, bb)
    ELSE IF tree.t = "Lambda"
    THEN ApplyReturn(LambdaRetval(Eval(s3, bb, tree.body), bb), bb)
    ELSE ApplyReturn(Perform(s3, bb, tree.body), bb)

ApplyNew(s, f, args, envs, key, bb) ==
    [NewBlock(s, s.funcs[f].space, envs) EXCEPT
        !.funcs[f].bbs = Append(@, [key |-> key, bb |-> bb]),
        !.analysed = Append(@, [func |-> f, tree |-> s.funcs[f].tree, bb |-> bb,
                                sig |-> [i \in 1..Len(args) |-> Kinds(s, args[i])]])]

\* Function.apply: gives [s, v], v the set object returned or None.
\* s.analysed notes each body analysis started (with the signature by
\* value), s.completed the blocks whose analysis ended, s.served each entry
\* answered from the cache.
Apply(s, f, args, envs) ==
    IF Cached(s.funcs[f].bbs, Key(s, args))
    THEN [s |-> [s EXCEPT !.served = Append(@,
                    [func |-> f, bb |-> CacheGet(s.funcs[f].bbs, Key(s, args)),
                     finished |-> CacheGet(s.funcs[f].bbs, Key(s, args)) \in s.completed])],
          v |-> s.blocks[CacheGet(s.funcs[f].bbs, Key(s, args))].retval]
    ELSE ApplyBody(Bind(ApplyNew(s, f, args, envs, Key(s, args), Len(s.blocks) + 1),
                        Len(s.blocks) + 1, Defs[s.funcs[f].tree].args, args),
                   Len(s.blocks) + 1, Defs[s.funcs[f].tree])

\* values.update(value), and on to the next func
CallUpdate(r, s, bb, tree, fobj, funcs, values) ==
    IF r.s.err # "" THEN r
    ELSE IF r.v = None THEN Raise(r.s, "TypeError")
    ELSE IF Len(r.s.heap[fobj]) # Len(s.heap[fobj]) THEN Raise(r.s, "RuntimeError")
    ELSE CallEach(r.s, bb, tree, fobj, Tail(funcs),
                  SetUpdate(values, r.s.heap[r.v], s.hash))

\* value = func.apply(args, (self.values,)+self.envs)
CallApply(a, s, bb, tree, fobj, funcs, values) ==
    IF a.s.err # "" THEN Raise(a.s, a.s.err)
    ELSE CallUpdate(Apply(a.s, FuncOf(Head(funcs)), a.v, <<bb>> \o a.s.blocks[bb].envs),
                    s, bb, tree, fobj, funcs, values)

\* for func in <callee set>: ... values.update(value).  `fobj` is the set
\* iterated (a set that changes size under its iterator raises
\* RuntimeError), `funcs` what is left of it, `values` the result so far.
CallEach(s, bb, tree, fobj, funcs, values) ==
    IF funcs = <<>> THEN Alloc(s, values)
    ELSE IF ~IsFunction(Head(funcs))
    THEN CallEach(s, bb, tree, fobj, Tail(funcs), values)
    ELSE CallApply(EvalArgs(s, bb, tree.args, <<>>), s, bb, tree, fobj, funcs, values)

CallFuncs(f, bb, tree) ==
    IF f.s.err # "" THEN f
    ELSE CallEach(f.s, bb, tree, f.v, IterOrder(f.s.heap[f.v], f.s.hash), <<>>)

\* The result of an operator applied: a new set object; s.ops notes the
\* operands and the result by value.
OpResult(s, left, right, v) ==
    Alloc([s EXCEPT !.ops = Append(@, [left |-> left, right |-> right,
                                       result |-> Range(v)])], v)

\* return optype(value1, tree.op, value2)
BinResult(e1, e2) ==
    IF e2.s.err # "" THEN e2
    ELSE OpResult(e2.s, Kinds(e2.s, e1.v), Kinds(e2.s, e2.v),
                  Optype(e2.s.heap[e1.v], e2.s.heap[e2.v], e2.s.hash))

\* value2 = self.eval(tree.right)
BinRight(e1, bb, tree) ==
    IF e1.s.err # "" THEN e1 ELSE BinResult(e1, Eval(e1.s, bb, tree.right))

\* return { v.uniop(tree.op) for v in value }
UnaryResult(e) ==
    IF e.s.err # "" THEN e
    ELSE OpResult(e.s, Kinds(e.s, e.v), {},
                  UniopAll(<<>>, IterOrder(e.s.heap[e.v], e.s.hash)))

\* the Name case of eval
EvalName(s, bb, ref) ==
    IF ref = None THEN Raise(s, "KeyError")
    ELSE IF Has(s.blocks[bb].values, ref)
    THEN [s |-> s, v |-> Get(s.blocks[bb].values, ref)]
    ELSE IF EnvFind(s, s.blocks[bb].envs, ref) = None THEN Raise(s, "ValueError")
    ELSE [s |-> s, v |-> EnvFind(s, s.blocks[bb].envs, ref)]

\* the Lambda case of eval
EvalLambda(s, bb, tree) ==
    Alloc(NewFunction(AddAll(NewSpace(s, <<"lambda">>, s.blocks[bb].space),
                             Len(s.spaces) + 1, tree.args),
                      Len(s.spaces) + 1, tree),
          <<FuncKind(Len(s.funcs) + 1)>>)

\* BBlock.eval: gives [s, v], v the set object the expression evaluates to.
Eval(s, bb, tree) ==
    CASE tree.t = "Name" -> EvalName(s, bb, Lookup(s, s.blocks[bb].space, tree.id))
      [] tree.t = "Constant" -> Alloc(s, <<tree.kind>>)
      [] tree.t = "BinOp" -> BinRight(Eval(s, bb, tree.left), bb, tree)
      [] tree.t = "UnaryOp" -> UnaryResult(Eval(s, bb, tree.operand))
      [] tree.t = "Call" -> CallFuncs(Eval(s, bb, tree.func), bb, tree)
      [] tree.t = "Lambda" -> EvalLambda(s, bb, tree)
      [] OTHER -> Raise(s, "SyntaxError")

\* BBlock.perform
Perform(s, bb, body) ==
    IF body = <<>> \/ s.err # "" THEN s
    ELSE Perform(Perform1(s, bb, Head(body)), bb, Tail(body))

\* self.values[ref] = { Type.lookup(tree) }
PerformDef(s, bb, tree, ref) ==
    IF ref = None THEN [s EXCEPT !.err = "KeyError"]
    ELSE [s EXCEPT !.heap = Append(@, <<FuncKind(s.functions[tree.id])>>),
                   !.blocks[bb].values = Put(@, ref, Len(s.heap) + 1)]

\* self.merge(bb1.values, bb2.values)
Join(s2, bb, bb1, bb2) ==
    IF s2.err # "" THEN s2
    ELSE Merge(s2, bb, s2.blocks[bb1].values, s2.blocks[bb2].values)

\* bb2 = BBlock(self.space, envs); bb2.perform(tree.orelse)
Orelse(s1, bb, bb1, tree) ==
    IF s1.err # "" THEN s1
    ELSE Join(Perform(NewBlock(s1, s1.blocks[bb].space, <<bb>> \o s1.blocks[bb].envs),
                      Len(s1.blocks) + 1, tree.orelse),
              bb, bb1, Len(s1.blocks) + 1)

\* the If, While and For cases of perform1, the same three times:
\* envs = (self.values,)+self.envs; bb1 = BBlock(self.space, envs); ...
Branch(s, bb, tree) ==
    Orelse(Perform(NewBlock(s, s.blocks[bb].space, <<bb>> \o s.blocks[bb].envs),
                   Len(s.blocks) + 1, tree.body),
           bb, Len(s.blocks) + 1, tree)

\* for t in tree.targets: ...
AssignValue(e, bb, targets) ==
    IF e.s.err # "" THEN e.s ELSE AssignAll(e.s, bb, targets, e.v)

\* self.values[ref] = optype(value1, tree.op, value2)
AugStore(r, bb, ref) ==
    IF r.s.err # "" THEN r.s ELSE [r.s EXCEPT !.blocks[bb].values = Put(@, ref, r.v)]

\* value2 = self.eval(tree.value); ref = self.space.lookup(tree.target.id)
AugRight(e1, bb, tree) ==
    IF e1.s.err # "" THEN e1.s
    ELSE AugStore(BinResult(e1, Eval(e1.s, bb, tree.value)), bb,
                  Lookup(e1.s, e1.s.blocks[bb].space, tree.target))

\* self.retval = value
SetRetval(e, bb) ==
    IF e.s.err # "" THEN e.s ELSE [e.s EXCEPT !.blocks[bb].retval = e.v]

\* BBlock.perform1
Perform1(s, bb, tree) ==
    CASE tree.t = "FunctionDef" ->
           PerformDef(s, bb, tree, Lookup(s, s.blocks[bb].space, tree.name))
      [] tree.t = "If" -> Branch(s, bb, tree)
      [] tree.t = "While" -> Branch(s, bb, tree)
      [] tree.t = "For" -> Branch(s, bb, tree)
      [] tree.t = "Assign" -> AssignValue(Eval(s, bb, tree.value), bb, tree.targets)
      [] tree.t = "AugAssign" -> AugRight(Eval(s, bb, Name(tree.target)), bb, tree)
      [] tree.t = "Global" -> s
      [] tree.t = "Expr" -> Eval(s, bb, tree.value).s
      [] tree.t = "Return" ->
           IF tree.value.t = "None" THEN s ELSE SetRetval(Eval(s, bb, tree.value), bb)
      [] tree.t \in {"Break", "Continue", "Pass"} -> s
      [] OTHER -> [s EXCEPT !.err = "SyntaxError"]

(* ------------------------------------------------------------ the driver *)
VARIABLES
    hash,       \* the build: the hash of each kind
    heap,       \* the set objects
    spaces,     \* the Namespace objects; 1 is root
    reftab,     \* the Ref objects
    funcs,      \* the Function objects
    functions,  \* Type.functions
    blocks,     \* the BBlock objects; 1 is the top-level block
    err,        \* the exception that ended the run, "" if none
    analysed, completed, served, joins, ops,   \* what the run did (notes)
    prog,       \* tree.body: the statements, by index
    phase,      \* "build" (line 401), "perform" (line 403)
    pc          \* the statement perform is at

vars == <<hash, heap, spaces, reftab, funcs, functions, blocks, err,
          analysed, completed, served, joins, ops, prog, phase, pc>>

RootSpace == 1
TopBlock == 1

State ==
    [hash |-> hash, heap |-> heap, spaces |-> spaces, reftab |-> reftab,
     funcs |-> funcs, functions |-> functions, blocks |-> blocks, err |-> err,
     analysed |-> analysed, completed |-> completed, served |-> served,
     joins |-> joins, ops |-> ops]

Becomes(s) ==
    /\ hash' = s.hash /\ heap' = s.heap /\ spaces' = s.spaces
    /\ reftab' = s.reftab /\ funcs' = s.funcs /\ functions' = s.functions
    /\ blocks' = s.blocks /\ err' = s.err /\ analysed' = s.analysed
    /\ completed' = s.completed /\ served' = s.served /\ joins' = s.joins
    /\ ops' = s.ops

\* root = Namespace('') (line 400), nothing built yet
Init ==
    /\ hash \in Builds
    /\ heap = <<>>
    /\ spaces = <<[name |-> <<>>, parent |-> None, spaces |-> <<>>, refs |-> <<>>]>>
    /\ reftab = <<>>
    /\ funcs = <<>>
    /\ functions = <<>>
    /\ blocks = <<>>
    /\ err = ""
    /\ analysed = <<>> /\ completed = {} /\ served = <<>>
    /\ joins = <<>> /\ ops = <<>>
    /\ prog = <<>>
    /\ phase = "build"
    /\ pc = 0

\* root.build(tree.body), one statement of the loop of Namespace.build:
\* first the prelude's definitions ...
BuildPrelude ==
    /\ phase = "build" /\ err = ""
    /\ Len(prog) < Len(Prelude)
    /\ prog' = Append(prog, Len(prog) + 1)
    /\ Becomes(Build1(State, RootSpace, Tree(Len(prog) + 1)))
    /\ UNCHANGED <<phase, pc>>

\* ... then the statements the program goes on with.
BuildStmt ==
    /\ phase = "build" /\ err = ""
    /\ Len(prog) >= Len(Prelude)
    /\ Len(prog) < Len(Prelude) + MaxProg
    /\ \E i \in 1..Len(Stmts) :
         /\ prog' = Append(prog, Len(Prelude) + i)
         /\ Becomes(Build1(State, RootSpace, Stmts[i]))
    /\ UNCHANGED <<phase, pc>>

\* bb = BBlock(root, ()) (line 402)
StartPerform ==
    /\ phase = "build" /\ err = ""
    /\ Len(prog) >= Len(Prelude)
    /\ Becomes(NewBlock(State, RootSpace, <<>>))
    /\ phase' = "perform"
    /\ pc' = 1
    /\ UNCHANGED prog

\* bb.perform(tree.body) is at a statement of one of `kinds`.
At(kinds) ==
    /\ phase = "perform" /\ err = ""
    /\ pc <= Len(prog)
    /\ Tree(prog[pc]).t \in kinds

\* The state perform1 leaves, having performed the statement at pc.
Performed == Perform1(State, TopBlock, Tree(prog[pc]))

\* bb.perform(tree.body), one statement of the loop of BBlock.perform, by the
\* kind of the statement.  An exception ends the run: err is set and nothing
\* more is performed.
PerformFunctionDef ==
    /\ At({"FunctionDef"})
    /\ Becomes(Performed)
    /\ pc' = pc + 1
    /\ UNCHANGED <<prog, phase>>

PerformBranch ==
    /\ At({"If", "While", "For"})
    /\ Becomes(Performed)
    /\ pc' = pc + 1
    /\ UNCHANGED <<prog, phase>>

PerformAssign ==
    /\ At({"Assign"})
    /\ Becomes(Performed)
    /\ pc' = pc + 1
    /\ UNCHANGED <<prog, phase>>

PerformAugAssign ==
    /\ At({"AugAssign"})
    /\ Becomes(Performed)
    /\ pc' = pc + 1
    /\ UNCHANGED <<prog, phase>>

PerformExpr ==
    /\ At({"Expr"})
    /\ Becomes(Performed)
    /\ pc' = pc + 1
    /\ UNCHANGED <<prog, phase>>

Next ==
    \/ BuildPrelude
    \/ BuildStmt
    \/ StartPerform
    \/ PerformFunctionDef
    \/ PerformBranch
    \/ PerformAssign
    \/ PerformAugAssign
    \/ PerformExpr

Spec == Init /\ [][Next]_vars

(* ------------------------------------------------------------- the claims *)
\* A cache entry as it reads: its environment and its return value by value.
EntryView(hp, blks, bb) ==
    <<[i \in 1..Len(blks[bb].values) |->
          <<blks[bb].values[i][1], Range(hp[blks[bb].values[i][2]])>>],
      IF blks[bb].retval = None THEN {None} ELSE Range(hp[blks[bb].retval])>>

\* The blocks that are cache entries.
EntryBlocks ==
    UNION {{funcs[f].bbs[i].bb : i \in 1..Len(funcs[f].bbs)} : f \in 1..Len(funcs)}

\* The function analysis (or the top level) a block belongs to: an if, while
\* or for block has the block it was made in first in its envs.
RECURSIVE Owner(_)
Owner(b) ==
    IF b = TopBlock \/ b \in EntryBlocks THEN b ELSE Owner(blocks[b].envs[1])

\* The names a body declares global, and the names it assigns, nested
\* definitions apart.
RECURSIVE GlobalsIn(_)
GlobalsIn(body) ==
    IF body = <<>> THEN {}
    ELSE GlobalsIn(Tail(body)) \cup
         (CASE Head(body).t = "Global" -> Range(Head(body).names)
            [] Head(body).t \in {"If", "While", "For"} ->
                  GlobalsIn(Head(body).body) \cup GlobalsIn(Head(body).orelse)
            [] OTHER -> {})

RECURSIVE AssignedIn(_)
AssignedIn(body) ==
    IF body = <<>> THEN {}
    ELSE AssignedIn(Tail(body)) \cup
         (CASE Head(body).t = "Assign" -> Range(Head(body).targets)
            [] Head(body).t = "AugAssign" -> {Head(body).target}
            [] Head(body).t = "FunctionDef" -> {Head(body).name}
            [] Head(body).t \in {"If", "While", "For"} ->
                  AssignedIn(Head(body).body) \cup AssignedIn(Head(body).orelse)
            [] OTHER -> {})

\* C1: a definition is analysed once for a signature: no two body analyses
\* of one function or lambda definition have signatures equal by value
\* (and so no two cache entries of it stand for one signature).
C1_OneAnalysisPerSignature ==
    \A i, j \in 1..Len(analysed) :
        (analysed[i].tree = analysed[j].tree /\ analysed[i].sig = analysed[j].sig)
            => i = j

\* C1 for the functions made by `def` alone: there the two analyses come from
\* repr(args) spelling one signature in two ways.
C1_OneAnalysisPerSignatureOfDef ==
    \A i, j \in 1..Len(analysed) :
        (analysed[i].func = analysed[j].func /\ analysed[i].sig = analysed[j].sig)
            => i = j

\* C2: the step that analyses a function under one more signature changes
\* nothing, environment or return value, in the entries the function had
\* finished before.
C2_NoInterference ==
    [][\A f \in 1..Len(funcs) :
          Len(funcs'[f].bbs) > Len(funcs[f].bbs) =>
             \A i \in 1..Len(funcs[f].bbs) :
                funcs[f].bbs[i].bb \in completed =>
                   EntryView(heap', blocks', funcs[f].bbs[i].bb)
                     = EntryView(heap, blocks, funcs[f].bbs[i].bb)]_vars

\* C3: the result of every operator applied (a op b, t op= e, op a) is the
\* TypeValue of its left or only operand.
C3_ResultIsLeftOperand ==
    \A i \in 1..Len(ops) : ops[i].result = ops[i].left

\* C4: at every join, each VarRef the parent holds afterwards has every member
\* it had in the body's environment and in the orelse's, as merge was given
\* them.
C4_JoinKeepsMembers ==
    \A i \in 1..Len(joins) :
        \A k \in 1..Len(joins[i].post) :
            LET r == joins[i].post[k][1]
                after == joins[i].post[k][2]
            IN  /\ Has(joins[i].e1, r) => Get(joins[i].e1, r) \subseteq after
                /\ Has(joins[i].e2, r) => Get(joins[i].e2, r) \subseteq after

\* a join of two branches that both assigned a variable bound before, to
\* different values
C4_Witness ==
    \E i \in 1..Len(joins) :
        \E k \in 1..Len(joins[i].pre) :
            LET r == joins[i].pre[k][1]
            IN  /\ Has(joins[i].e1, r) /\ Has(joins[i].e2, r)
                /\ Get(joins[i].e1, r) # Get(joins[i].e2, r)
                /\ Get(joins[i].e1, r) \ joins[i].pre[k][2] # {}

\* The parameters of Function f that are variables of an enclosing scope too.
Shadowing(f) ==
    {n \in Range(Defs[funcs[f].tree].args) :
        Lookup(State, spaces[funcs[f].space].parent, n) # None}

DeclaredGlobal(f) ==
    IF Defs[funcs[f].tree].t = "Lambda" THEN {}
    ELSE GlobalsIn(Defs[funcs[f].tree].body)

\* C5: once the scopes are built, a parameter that an enclosing scope has as
\* well resolves in the function's scope to the function's own Ref, and to
\* root's Ref if the body declares it global, before or after assigning it.
C5_Shadowing ==
    phase = "perform" =>
        \A f \in 1..Len(funcs) : \A n \in Shadowing(f) :
            LET ref == Lookup(State, funcs[f].space, n)
            IN  IF n \in DeclaredGlobal(f)
                THEN /\ n \in DOMAIN spaces[RootSpace].refs
                     /\ ref = spaces[RootSpace].refs[n]
                ELSE ref # None /\ reftab[ref].space = funcs[f].space

\* scopes built: a parameter assigned and then declared global, one declared
\* global and then assigned, and one that only shadows
C5_Witness ==
    /\ phase = "perform"
    /\ \E f \in 1..Len(funcs) : \E n \in Shadowing(f) :
          /\ n \in DeclaredGlobal(f)
          /\ Defs[funcs[f].tree].body[1].t = "Assign"
          /\ Lookup(State, funcs[f].space, n) = spaces[RootSpace].refs[n]
    /\ \E f \in 1..Len(funcs) : \E n \in Shadowing(f) :
          /\ n \in DeclaredGlobal(f)
          /\ Defs[funcs[f].tree].body[1].t = "Global"
    /\ \E f \in 1..Len(funcs) : \E n \in Shadowing(f) :
          /\ n \notin DeclaredGlobal(f)
          /\ reftab[Lookup(State, funcs[f].space, n)].space = funcs[f].space

\* What a branch's block holds for r, the block starting as a clone of the
\* parent's environment: its own value, else the parent's.
Cloned(e, pre, r) ==
    IF Has(e, r) THEN Get(e, r) ELSE IF Has(pre, r) THEN Get(pre, r) ELSE {}

\* C6: after a join the parent holds, for every VarRef a branch assigned,
\* exactly the union of what the two branches hold for it.
C6_JoinIsUnion ==
    \A i \in 1..Len(joins) :
        \A k \in 1..Len(joins[i].post) :
            LET r == joins[i].post[k][1]
            IN  (Has(joins[i].e1, r) \/ Has(joins[i].e2, r)) =>
                   joins[i].post[k][2] = Cloned(joins[i].e1, joins[i].pre, r)
                                           \cup Cloned(joins[i].e2, joins[i].pre, r)

\* C7: a finished analysis whose body, at any depth, executed a return with a
\* value has a return value, and that value among its members.
C7_ReturnPropagates ==
    \A b \in 1..Len(blocks) :
        (blocks[b].retval # None /\ Owner(b) \in EntryBlocks \cap completed) =>
            /\ blocks[Owner(b)].retval # None
            /\ Range(heap[blocks[b].retval]) \subseteq Range(heap[blocks[Owner(b)].retval])

\* C8: a call of a function that returns nothing raises no error (the only
\* TypeError of the analyser is values.update(None), line 306).
C8_AbsentReturnIsNoError ==
    err # "TypeError"

\* C9: an apply that finds its signature in the cache finds a finished
\* analysis.
C9_CacheHoldsFinishedAnalyses ==
    \A i \in 1..Len(served) : served[i].finished

\* The names a top-level statement writes.
Written(tree) == AssignedIn(<<tree>>)

\* C10: a top-level assignment, augmented assignment or branch changes, of the
\* top-level environment, only the variables it assigns, and changes no
\* finished cache entry.
C10_Frame ==
    [][(At({"Assign", "AugAssign", "If", "While", "For"}) /\ err' = "") =>
          /\ \A i \in 1..Len(blocks[TopBlock].values) :
                LET ref == blocks[TopBlock].values[i][1]
                IN  reftab[ref].name \notin Written(Tree(prog[pc])) =>
                       /\ blocks'[TopBlock].values[i][1] = ref
                       /\ Range(heap'[blocks'[TopBlock].values[i][2]])
                            = Range(heap[blocks[TopBlock].values[i][2]])
          /\ \A bb \in EntryBlocks \cap completed :
                EntryView(heap', blocks', bb) = EntryView(heap, blocks, bb)]_vars

====
